---- MODULE Spec2Model ----
(***************************************************************************)
(* Support Ticket Dashboard (src/app.py): the cached query layer, the      *)
(* filter option loaders, the query builders, the search adapter and the   *)
(* render script main(), as a state machine.                               *)
(*                                                                         *)
(* One render of the page is one run of main().  The run blocks on every   *)
(* call it makes to the data store, so each call site of main() is one     *)
(* step.  The upstream ingestion may add tickets to the table between any  *)
(* two steps; a run is short against the 300-second window of the caches,  *)
(* and the clock advances between runs.                                    *)
(***************************************************************************)
EXTENDS Integers, Sequences, FiniteSets, TLC

\* ------------------------------------------------------------ constants
TTL == 300
DefaultListLimit == 100
DefaultSearchLimit == 50

\* --------------------------------------------------------------- bounds
MaxTime == 301
MaxRenders == 2
MaxFailures == 1
Bulk == 51

TickSteps == {299, 300, 301}

\* -------------------------------------------------------------- strings
\* A string is a sequence of one-character strings.
All == <<"A", "l", "l">>
Billing == <<"B", "i">>
Bug == <<"B", "u">>
NoText == << >>

Lower(c) ==
  CASE c = "A" -> "a"
    [] c = "B" -> "b"
    [] OTHER -> c

\* str.replace("'", "''")
RECURSIVE Replace(_)
Replace(s) ==
  IF s = << >> THEN << >>
  ELSE IF Head(s) = "'" THEN <<"'", "'">> \o Replace(Tail(s))
  ELSE <<Head(s)>> \o Replace(Tail(s))

\* The value of the SQL string constant whose body (between the enclosing
\* quotes) is s: a doubled quote stands for one quote.  A single quote ends
\* the constant early, which makes the statement malformed.
RECURSIVE LiteralOK(_)
LiteralOK(s) ==
  IF s = << >> THEN TRUE
  ELSE IF Head(s) = "'"
       THEN Len(s) >= 2 /\ s[2] = "'" /\ LiteralOK(Tail(Tail(s)))
       ELSE LiteralOK(Tail(s))

RECURSIVE LiteralValue(_)
LiteralValue(s) ==
  IF s = << >> THEN << >>
  ELSE IF Head(s) = "'" THEN <<"'">> \o LiteralValue(Tail(Tail(s)))
  ELSE <<Head(s)>> \o LiteralValue(Tail(s))

\* subject ILIKE pattern: % matches any run of characters, _ any one
\* character, every other character itself without regard to case.
RECURSIVE ILike(_, _)
ILike(s, p) ==
  IF p = << >> THEN s = << >>
  ELSE IF Head(p) = "%"
       THEN ILike(s, Tail(p)) \/ (s # << >> /\ ILike(Tail(s), p))
  ELSE IF s = << >> THEN FALSE
  ELSE /\ (Head(p) = "_" \/ Lower(Head(s)) = Lower(Head(p)))
       /\ ILike(Tail(s), Tail(p))

\* ---------------------------------------------------------------- dates
\* A date is a day number.  A Python value that is either a date or a tuple
\* of dates (what the date-range control returns) is a record.
DateVal(d) == [isDate |-> TRUE, items |-> <<d>>]
TupleVal(s) == [isDate |-> FALSE, items |-> s]
NoDate == TupleVal(<< >>)

\* -------------------------------------------------------------- tickets
Ticket(i, c, s, p, d, x) ==
  [TICKET_ID |-> i, CATEGORY |-> c, SUBCATEGORY |-> s, PRIORITY |-> p,
   CREATED_DATE |-> d, DESCRIPTION |-> x]

High == <<"H">>
Low == <<"L">>

T1 == Ticket(1, Billing, <<"r">>, High, 1, <<"z">>)
T2 == Ticket(2, Bug, <<"u", "i">>, Low, 2, <<"b">>)
T3 == Ticket(3, Billing, <<"r">>, Low, 2, <<"u">>)

InitialTable == {T1, T2}
Universe == {T1, T2, T3}

\* The orders the store sorts the two enumerated columns by.
CategoryOrder == <<Billing, Bug>>
PriorityOrder == <<High, Low>>


\* -------------------------------------------------------------- queries
\* A SQL text is the record of what the f-string interpolates into it: the
\* kind of statement, the conditions of its WHERE clause in the order they
\* are written, the search text and the LIMIT.  Two texts are the same
\* string exactly when the records are equal.
Between(lo, hi) == [col |-> "CREATED_DATE", lo |-> lo, hi |-> hi, val |-> NoText]
Equals(col, v) == [col |-> col, lo |-> NoDate, hi |-> NoDate, val |-> v]

Sql(kind, where, text, limit) ==
  [kind |-> kind, where |-> where, text |-> text, limit |-> limit]

CategoriesQuery == Sql("categories", << >>, NoText, 0)
PrioritiesQuery == Sql("priorities", << >>, NoText, 0)
DateRangeQuery == Sql("date_range", << >>, NoText, 0)

\* Mutant of Conditions: the category condition written for "All" too.
Conditions_AllAsValue(category, priority, start_date, end_date) ==
  <<Between(start_date, end_date), Equals("CATEGORY", category)>>
    \o (IF priority # All THEN <<Equals("PRIORITY", priority)>> ELSE << >>)

\* conditions = [date]; if category != "All": append; if priority != "All": append
Conditions(category, priority, start_date, end_date) ==
  <<Between(start_date, end_date)>>
    \o (IF category # All THEN <<Equals("CATEGORY", category)>> ELSE << >>)
    \o (IF priority # All THEN <<Equals("PRIORITY", priority)>> ELSE << >>)

FilteredTicketsQuery(category, priority, start_date, end_date, limit) ==
  Sql("list", Conditions(category, priority, start_date, end_date), NoText, limit)

TicketsOverTimeQuery(category, priority, start_date, end_date) ==
  Sql("time", Conditions(category, priority, start_date, end_date), NoText, 0)

\* Mutant of TicketsByCategoryQuery: the priority condition left out.
TicketsByCategoryQuery_NoPriority(category, priority, start_date, end_date) ==
  Sql("by_category", Conditions(category, All, start_date, end_date), NoText, 0)

TicketsByCategoryQuery(category, priority, start_date, end_date) ==
  Sql("by_category", Conditions(category, priority, start_date, end_date), NoText, 0)

TicketsByPriorityQuery(category, priority, start_date, end_date) ==
  Sql("by_priority", Conditions(category, priority, start_date, end_date), NoText, 0)

\* total_query: each replace("WHERE", "WHERE <condition> AND") writes its
\* condition in front of the ones already there.
TotalQuery(category, priority, start_date, end_date) ==
  Sql("total",
      (IF priority # All THEN <<Equals("PRIORITY", priority)>> ELSE << >>)
        \o (IF category # All THEN <<Equals("CATEGORY", category)>> ELSE << >>)
        \o <<Between(start_date, end_date)>>,
      NoText, 0)

FallbackQuery(escaped_query, limit) == Sql("fallback", << >>, escaped_query, limit)

\* ------------------------------------------------------- the data store
\* A date condition is readable only when both ends are dates: the text of
\* a tuple is no date literal, and the store rejects the statement.
CondOK(c) == c.col = "CREATED_DATE" => (c.lo.isDate /\ c.hi.isDate)

Satisfies(t, c) ==
  CASE c.col = "CREATED_DATE" ->
         /\ c.lo.items[1] <= t.CREATED_DATE
         /\ t.CREATED_DATE <= c.hi.items[1]
    [] c.col = "CATEGORY" -> t.CATEGORY = c.val
    [] c.col = "PRIORITY" -> t.PRIORITY = c.val

WellFormed(q) ==
  /\ \A i \in 1..Len(q.where) : CondOK(q.where[i])
  /\ LiteralOK(q.text)

Where(q, tbl) ==
  {t \in tbl : \A i \in 1..Len(q.where) : Satisfies(t, q.where[i])}

RECURSIVE SumCounts(_)
SumCounts(rows) ==
  IF rows = {} THEN 0
  ELSE LET r == CHOOSE x \in rows : TRUE
       IN r.TICKET_COUNT + SumCounts(rows \ {r})

\* GROUP BY col with COUNT(*): one row per value of col that occurs.
GroupCount(rows, col) ==
  {[key |-> v, TICKET_COUNT |-> Cardinality({t \in rows : t[col] = v})] :
     v \in {t[col] : t \in rows}}

\* Rows of equal rank come in an order the store does not promise; tie is
\* the order it happens to use.
Before(a, b, byDate, tie) ==
  \/ byDate /\ a.CREATED_DATE > b.CREATED_DATE
  \/ /\ (byDate => a.CREATED_DATE = b.CREATED_DATE)
     /\ IF tie = "asc" THEN a.TICKET_ID < b.TICKET_ID
                       ELSE a.TICKET_ID > b.TICKET_ID

\* ORDER BY ... LIMIT n
FirstN(rows, n, byDate, tie) ==
  IF Cardinality(rows) <= n THEN rows
  ELSE {r \in rows : Cardinality({m \in rows : Before(m, r, byDate, tie)}) < n}

Project(t) ==
  [TICKET_ID |-> t.TICKET_ID, CATEGORY |-> t.CATEGORY,
   SUBCATEGORY |-> t.SUBCATEGORY, PRIORITY |-> t.PRIORITY,
   CREATED_DATE |-> t.CREATED_DATE]

MinDate(tbl) == CHOOSE d \in {t.CREATED_DATE : t \in tbl} :
                  \A t \in tbl : d <= t.CREATED_DATE
MaxDate(tbl) == CHOOSE d \in {t.CREATED_DATE : t \in tbl} :
                  \A t \in tbl : d >= t.CREATED_DATE

LikePattern(text) == <<"%">> \o LiteralValue(text) \o <<"%">>

\* The table a well-formed statement returns.
Execute(q, tbl, tie) ==
  CASE q.kind = "categories" ->
         SelectSeq(CategoryOrder, LAMBDA c : \E t \in tbl : t.CATEGORY = c)
    [] q.kind = "priorities" ->
         SelectSeq(PriorityOrder, LAMBDA p : \E t \in tbl : t.PRIORITY = p)
    [] q.kind = "date_range" -> <<MinDate(tbl), MaxDate(tbl)>>
    [] q.kind = "total" -> Cardinality(Where(q, tbl))
    [] q.kind = "time" -> GroupCount(Where(q, tbl), "CREATED_DATE")
    [] q.kind = "by_category" -> GroupCount(Where(q, tbl), "CATEGORY")
    [] q.kind = "by_priority" -> GroupCount(Where(q, tbl), "PRIORITY")
    [] q.kind = "list" ->
         {Project(t) : t \in FirstN(Where(q, tbl), q.limit, TRUE, tie)}
    [] q.kind = "fallback" ->
         {Project(t) :
            t \in FirstN({u \in tbl : \/ ILike(u.CATEGORY, LikePattern(q.text))
                                     \/ ILike(u.SUBCATEGORY, LikePattern(q.text))},
                         q.limit, FALSE, tie)}

\* ------------------------------------------------------- the cache layer
\* What a call takes from outside the program: est, whether the runtime can
\* hand over a session now; ok, whether the store answers the statement;
\* tie, the order the store gives to rows of equal rank.
Envs == [est : BOOLEAN, ok : BOOLEAN, tie : {"asc", "desc"}]

\* A cache entry: the value, the time it was stored (at), and, for the
\* record only, the time (readAt) and the table contents (src) of the read
\* of the store that produced it.
Entry(v, at, readAt, src) == [val |-> v, at |-> at, readAt |-> readAt, src |-> src]
NoEntry == Entry(0, 0 - 1, 0 - 1, {})

\* Mutants of Fresh: the boundary second counted as inside the window, and
\* an entry that never expires.
FreshAtBoundary(e, t) == t - e.at <= TTL

FreshForever(e, t) == TRUE

\* ttl=300: an entry is served while less than TTL seconds old.
Fresh(e, t) == t - e.at < TTL

Hit(cache, k, t) == k \in DOMAIN cache /\ Fresh(cache[k], t)

Store(cache, k, e) == [x \in DOMAIN cache \cup {k} |-> IF x = k THEN e ELSE cache[x]]

\* Mutant of get_session: the session is obtained anew on every call.
get_session_uncached(sess, est) ==
  IF est THEN [exc |-> "none", session |-> FALSE]
  ELSE [exc |-> "connection", session |-> FALSE]

\* @st.cache_resource: the session is obtained once and kept; a failure to
\* obtain it is raised and not kept.
get_session(sess, est) ==
  IF sess \/ est THEN [exc |-> "none", session |-> TRUE]
  ELSE [exc |-> "connection", session |-> FALSE]

\* @st.cache_data(ttl=300) run_query(query).  prev is the entry the cache
\* held for the text when the call was made, executed whether the call sent
\* the statement to the store.
run_query(qc, sess, q, env, tbl, t) ==
  LET prev == IF q \in DOMAIN qc THEN qc[q] ELSE NoEntry
  IN IF Hit(qc, q, t)
     THEN [exc |-> "none", entry |-> qc[q], query_cache |-> qc, session |-> sess,
           called |-> TRUE, executed |-> FALSE, prev |-> prev]
     ELSE LET s == get_session(sess, env.est)
          IN IF s.exc # "none"
             THEN [exc |-> s.exc, entry |-> NoEntry, query_cache |-> qc,
                   session |-> s.session, called |-> TRUE, executed |-> FALSE,
                   prev |-> prev]
             ELSE IF ~env.ok \/ ~WellFormed(q)
             THEN [exc |-> IF ~env.ok THEN "query" ELSE "statement",
                   entry |-> NoEntry, query_cache |-> qc,
                   session |-> s.session, called |-> TRUE, executed |-> TRUE,
                   prev |-> prev]
             ELSE LET e == Entry(Execute(q, tbl, env.tie), t, t, tbl)
                  IN [exc |-> "none", entry |-> e, query_cache |-> Store(qc, q, e),
                      session |-> s.session, called |-> TRUE, executed |-> TRUE,
                      prev |-> prev]

\* The three loaders: each its own 300-second cache around a run_query call.
Loaded(name, v) ==
  CASE name = "get_categories" -> <<All>> \o v
    [] name = "get_priorities" -> <<All>> \o v
    [] name = "get_date_range" -> <<v[1], v[2]>>

CachedLoader(name, q, lc, qc, sess, env, tbl, t) ==
  IF Hit(lc, name, t)
  THEN [exc |-> "none", entry |-> lc[name], loader_cache |-> lc,
        query_cache |-> qc, session |-> sess, inner |-> [called |-> FALSE]]
  ELSE LET r == run_query(qc, sess, q, env, tbl, t)
       IN IF r.exc # "none"
          THEN [exc |-> r.exc, entry |-> NoEntry, loader_cache |-> lc,
                query_cache |-> r.query_cache, session |-> r.session, inner |-> r]
          ELSE LET e == Entry(Loaded(name, r.entry.val), t,
                              r.entry.readAt, r.entry.src)
               IN [exc |-> "none", entry |-> e, loader_cache |-> Store(lc, name, e),
                   query_cache |-> r.query_cache, session |-> r.session, inner |-> r]

get_categories(lc, qc, sess, env, tbl, t) ==
  CachedLoader("get_categories", CategoriesQuery, lc, qc, sess, env, tbl, t)

get_priorities(lc, qc, sess, env, tbl, t) ==
  CachedLoader("get_priorities", PrioritiesQuery, lc, qc, sess, env, tbl, t)

get_date_range(lc, qc, sess, env, tbl, t) ==
  CachedLoader("get_date_range", DateRangeQuery, lc, qc, sess, env, tbl, t)

\* ---------------------------------------------------------------- state
VARIABLES
  now,            \* the clock, in seconds
  table,          \* the ticket table of the data store
  session,        \* whether get_session holds its session
  query_cache,    \* run_query's cache: SQL text -> entry
  loader_cache,   \* the loaders' caches: function name -> entry
  pc,             \* where the current run of main() stands
  renders,        \* runs of main() started so far
  loc,            \* main()'s local variables
  shown,          \* the elements the current run has put on the page
  failures,       \* calls the session or the store has failed so far
  call,           \* the latest run_query call of the run (for the record)
  served,         \* the latest value handed to main() (for the record)
  probe           \* the listing comparison of the query-builder check

vars == <<now, table, session, query_cache, loader_cache, pc, renders, loc,
          shown, failures, call, served, probe>>

\* The outside a call can meet now: the session and the store fail at most
\* MaxFailures calls in all.
EnvsNow == {env \in Envs : failures >= MaxFailures => (env.est /\ env.ok)}

\* A call failed because the session or the store did (and not because the
\* statement was malformed).
Failed(r, q) == r.exc \in {"connection", "query"}

Count(r, q) == failures' = failures + (IF Failed(r, q) THEN 1 ELSE 0)

SearchTexts == {<<"b">>, <<"_">>, <<"z">>}

Panels == {"total", "time", "by_category", "by_priority", "list"}

NoSources == [p \in Panels |-> {}]

InitLoc ==
  [categories |-> << >>, priorities |-> << >>, min_date |-> 0, max_date |-> 0,
   selected_category |-> All, selected_priority |-> All,
   date_range |-> << >>, start_date |-> NoDate, end_date |-> NoDate,
   search_query |-> NoText, search_results |-> {},
   total_tickets |-> 0, avg_per_day |-> [num |-> 0, den |-> 0],
   time_df |-> {}, cat_df |-> {}, pri_df |-> {}, tickets_df |-> {},
   attempted |-> {}, failed |-> "none", exc |-> "none",
   search_failed |-> FALSE, fallback_issued |-> FALSE,
   sources |-> NoSources]

NoCall ==
  [called |-> FALSE, q |-> CategoriesQuery, at |-> 0, executed |-> FALSE,
   exc |-> "none", entry |-> NoEntry, prev |-> NoEntry]

CallOf(r, q, t) ==
  [called |-> TRUE, q |-> q, at |-> t, executed |-> r.executed, exc |-> r.exc,
   entry |-> r.entry, prev |-> r.prev]

NoProbe ==
  [done |-> FALSE, dimension |-> "none", other |-> All, start_date |-> 0,
   end_date |-> 0, matched |-> 0, all |-> {}, parts |-> {}, options |-> << >>]

NoServed == [fn |-> "none", readAt |-> 0, at |-> 0]

Serve(fn, e, t) == [fn |-> fn, readAt |-> e.readAt, at |-> t]

Init ==
  /\ now = 0
  /\ table = InitialTable
  /\ session = FALSE
  /\ query_cache = << >>
  /\ loader_cache = << >>
  /\ pc = "idle"
  /\ renders = 0
  /\ loc = InitLoc
  /\ shown = {}
  /\ failures = 0
  /\ call = NoCall
  /\ served = NoServed
  /\ probe = NoProbe

\* ---------------------------------------------------------- environment
\* Time passes between two runs of main().
Tick ==
  /\ pc \in {"idle", "done", "stopped", "crashed"}
  /\ \E d \in TickSteps : now + d <= MaxTime /\ now' = now + d
  /\ UNCHANGED <<table, session, query_cache, loader_cache, pc, renders, loc,
                 shown, failures, call, served, probe>>

\* The upstream ingestion adds a ticket, at any point of a run or between
\* runs.
Ingest ==
  /\ \E t \in Universe \ table : table' = table \cup {t}
  /\ UNCHANGED <<now, session, query_cache, loader_cache, pc, renders, loc,
                 shown, failures, call, served, probe>>

\* ------------------------------------------------------------- main()
\* The page is (re)run: a new session, or a widget changed.
StartRender ==
  /\ pc \in {"idle", "done", "stopped", "crashed"}
  /\ renders < MaxRenders
  /\ renders' = renders + 1
  /\ pc' = "get_categories"
  /\ loc' = InitLoc
  /\ shown' = {}
  /\ call' = NoCall
  /\ served' = NoServed
  /\ UNCHANGED <<now, table, session, query_cache, loader_cache, failures, probe>>

\* except Exception: st.error, st.info, st.stop
LoadFailed(r) ==
  /\ pc' = "stopped"
  /\ shown' = shown \cup {"error", "info"}
  /\ loc' = [loc EXCEPT !.exc = r.exc, !.failed = pc]
  /\ UNCHANGED served

LoaderStep(r, q) ==
  /\ session' = r.session
  /\ query_cache' = r.query_cache
  /\ loader_cache' = r.loader_cache
  /\ call' = IF r.inner.called THEN CallOf(r.inner, q, now) ELSE call
  /\ Count(r, q)
  /\ UNCHANGED <<now, table, renders, probe>>

LoadCategories ==
  /\ pc = "get_categories"
  /\ \E env \in EnvsNow :
       LET r == get_categories(loader_cache, query_cache, session, env, table, now)
       IN /\ LoaderStep(r, CategoriesQuery)
          /\ IF r.exc # "none" THEN LoadFailed(r)
             ELSE /\ pc' = "get_priorities"
                  /\ loc' = [loc EXCEPT !.categories = r.entry.val]
                  /\ served' = Serve("get_categories", r.entry, now)
                  /\ UNCHANGED shown

LoadPriorities ==
  /\ pc = "get_priorities"
  /\ \E env \in EnvsNow :
       LET r == get_priorities(loader_cache, query_cache, session, env, table, now)
       IN /\ LoaderStep(r, PrioritiesQuery)
          /\ IF r.exc # "none" THEN LoadFailed(r)
             ELSE /\ pc' = "get_date_range"
                  /\ loc' = [loc EXCEPT !.priorities = r.entry.val]
                  /\ served' = Serve("get_priorities", r.entry, now)
                  /\ UNCHANGED shown

LoadDateRange ==
  /\ pc = "get_date_range"
  /\ \E env \in EnvsNow :
       LET r == get_date_range(loader_cache, query_cache, session, env, table, now)
       IN /\ LoaderStep(r, DateRangeQuery)
          /\ IF r.exc # "none" THEN LoadFailed(r)
             ELSE /\ pc' = "widgets"
                  /\ loc' = [loc EXCEPT !.min_date = r.entry.val[1],
                                         !.max_date = r.entry.val[2]]
                  /\ served' = Serve("get_date_range", r.entry, now)
                  /\ UNCHANGED shown

Elements(seq) == {seq[i] : i \in 1..Len(seq)}

\* What the user picks in a selectbox: the model's user picks the first
\* option ("All") or the last one.
Picks(options) == {options[1], options[Len(options)]}

\* What the range picker seeded with (min_date, max_date) returns: a tuple
\* of the two ends picked, or of the one end picked so far.  The model's
\* user picks the whole span, its first day alone (as both ends), or only a
\* first end.
DateInputValues(min_date, max_date) ==
  {<<min_date, max_date>>, <<min_date, min_date>>, <<min_date>>}

\* The sidebar widgets, the single-date handling and the search box.  The
\* filters play no part in a run that searches, and a half-picked range
\* ends a dashboard run at its first query whatever the other filters are:
\* the other widgets are left at their defaults in both.
WidgetValues(categories, priorities, min_date, max_date) ==
  {w \in [category : Picks(categories), priority : Picks(priorities),
          date_range : DateInputValues(min_date, max_date),
          text : SearchTexts \cup {NoText}] :
     (w.text # NoText \/ Len(w.date_range) # 2) =>
       /\ w.category = All
       /\ w.priority = All
       /\ (w.text # NoText => w.date_range = <<min_date, max_date>>)}

Widgets ==
  /\ pc = "widgets"
  /\ \E w \in WidgetValues(loc.categories, loc.priorities, loc.min_date, loc.max_date) :
       LET dr == w.date_range
       IN /\ loc' = [loc EXCEPT
                       !.selected_category = w.category,
                       !.selected_priority = w.priority,
                       !.date_range = dr,
                       !.start_date = IF Len(dr) = 2 THEN DateVal(dr[1]) ELSE TupleVal(dr),
                       !.end_date = IF Len(dr) = 2 THEN DateVal(dr[2]) ELSE TupleVal(dr),
                       !.search_query = w.text]
          /\ pc' = IF w.text # NoText THEN "search" ELSE "total"
  /\ UNCHANGED <<now, table, session, query_cache, loader_cache, renders,
                 shown, failures, call, served, probe>>

\* An exception nothing in main() catches ends the run; the page keeps what
\* was shown before it and shows the exception.
Uncaught ==
  /\ pc' = "crashed"
  /\ shown' = shown \cup {"exception"}
  /\ UNCHANGED served

\* What the semantic search call can do: raise, or return some rows of the
\* table (with their descriptions), ranked by the service.
SemanticOutcomes(tbl) ==
  {[raised |-> TRUE, rows |-> {}]} \cup {[raised |-> FALSE, rows |-> rows] : rows \in SUBSET tbl}

\* if len(search_results) > 0: st.success and the cards; else st.warning
SearchShown(rows) ==
  IF Cardinality(rows) > 0 THEN {"search_success", "search_cards"}
  ELSE {"no_matches_warning"}

\* search_results = search_tickets_cortex(search_query), and its display
Search ==
  /\ pc = "search"
  /\ \E env \in EnvsNow, sem \in SemanticOutcomes(table) :
       LET s == get_session(session, env.est)
           escaped_query == Replace(loc.search_query)
           q == FallbackQuery(escaped_query, DefaultSearchLimit)
           r == run_query(query_cache, s.session, q, env, table, now)
       IN IF s.exc # "none"
          THEN /\ Uncaught
               /\ loc' = [loc EXCEPT !.exc = s.exc, !.failed = "search"]
               /\ failures' = failures + 1
               /\ UNCHANGED <<session, query_cache, call>>
          ELSE IF ~sem.raised
          THEN /\ session' = s.session
               /\ loc' = [loc EXCEPT !.search_results = sem.rows]
               /\ shown' = shown \cup SearchShown(sem.rows)
               /\ pc' = "done"
               /\ UNCHANGED <<query_cache, failures, call, served>>
          ELSE /\ session' = r.session
               /\ Count(r, q)
               /\ query_cache' = r.query_cache
               /\ call' = CallOf(r, q, now)
               /\ IF r.exc # "none"
                  THEN /\ pc' = "crashed"
                       /\ shown' = shown \cup {"fallback_warning", "exception"}
                       /\ loc' = [loc EXCEPT !.exc = r.exc, !.failed = "search",
                                              !.search_failed = TRUE,
                                              !.fallback_issued = TRUE]
                       /\ UNCHANGED served
                  ELSE /\ pc' = "done"
                       /\ shown' = shown \cup {"fallback_warning"}
                                      \cup SearchShown(r.entry.val)
                       /\ loc' = [loc EXCEPT !.search_results = r.entry.val,
                                              !.search_failed = TRUE,
                                              !.fallback_issued = TRUE]
                       /\ served' = Serve("run_query", r.entry, now)
  /\ UNCHANGED <<now, table, loader_cache, renders, probe>>

\* A dashboard panel's run_query call.
QueryStep(r, q) ==
  /\ session' = r.session
  /\ query_cache' = r.query_cache
  /\ call' = CallOf(r, q, now)
  /\ Count(r, q)
  /\ UNCHANGED <<now, table, loader_cache, renders, probe>>

PanelFailed(r, panel) ==
  /\ Uncaught
  /\ loc' = [loc EXCEPT !.exc = r.exc, !.failed = panel,
                         !.attempted = @ \cup {panel}]

Max(a, b) == IF a >= b THEN a ELSE b

\* The metrics row: total_query, run_query, the four st.metric
Total ==
  /\ pc = "total"
  /\ \E env \in EnvsNow :
       LET q == TotalQuery(loc.selected_category, loc.selected_priority,
                           loc.start_date, loc.end_date)
           r == run_query(query_cache, session, q, env, table, now)
       IN /\ QueryStep(r, q)
          /\ IF r.exc # "none" THEN PanelFailed(r, "total")
             ELSE IF ~(loc.start_date.isDate /\ loc.end_date.isDate)
             THEN \* (end_date - start_date) on tuples: TypeError
                  /\ pc' = "crashed"
                  /\ shown' = shown \cup {"total_metric", "categories_metric", "exception"}
                  /\ loc' = [loc EXCEPT !.exc = "type", !.failed = "total",
                                         !.attempted = @ \cup {"total"},
                                         !.total_tickets = r.entry.val]
                  /\ served' = Serve("run_query", r.entry, now)
             ELSE LET days == loc.end_date.items[1] - loc.start_date.items[1]
                  IN /\ pc' = "time"
                     /\ shown' = shown \cup {"total_metric", "categories_metric",
                                              "range_metric", "avg_metric"}
                     /\ loc' = [loc EXCEPT
                                  !.total_tickets = r.entry.val,
                                  !.avg_per_day = [num |-> r.entry.val,
                                                   den |-> Max(days, 1)],
                                  !.attempted = @ \cup {"total"},
                                  !.sources = [@ EXCEPT !["total"] = r.entry.src]]
                     /\ served' = Serve("run_query", r.entry, now)

\* A panel that shows its result when it has rows, and otherwise what the
\* else branch shows (nothing when there is no else branch).
Panel(panel, q, field, nonEmpty, empty, next) ==
  \E env \in EnvsNow :
    LET r == run_query(query_cache, session, q, env, table, now)
    IN /\ QueryStep(r, q)
       /\ IF r.exc # "none" THEN PanelFailed(r, panel)
          ELSE /\ pc' = next
               /\ shown' = shown \cup (IF Cardinality(r.entry.val) > 0
                                        THEN nonEmpty ELSE empty)
               /\ loc' = [loc EXCEPT ![field] = r.entry.val,
                                      !.attempted = @ \cup {panel},
                                      !.sources = [@ EXCEPT ![panel] = r.entry.src]]
               /\ served' = Serve("run_query", r.entry, now)

TimeSeries ==
  /\ pc = "time"
  /\ Panel("time",
           TicketsOverTimeQuery(loc.selected_category, loc.selected_priority,
                                loc.start_date, loc.end_date),
           "time_df", {"time_chart"}, {}, "by_category")

ByCategory ==
  /\ pc = "by_category"
  /\ Panel("by_category",
           TicketsByCategoryQuery(loc.selected_category, loc.selected_priority,
                                  loc.start_date, loc.end_date),
           "cat_df", {"category_chart"}, {}, "by_priority")

ByPriority ==
  /\ pc = "by_priority"
  /\ Panel("by_priority",
           TicketsByPriorityQuery(loc.selected_category, loc.selected_priority,
                                  loc.start_date, loc.end_date),
           "pri_df", {"priority_chart"}, {}, "list")

RecentTickets ==
  /\ pc = "list"
  /\ Panel("list",
           FilteredTicketsQuery(loc.selected_category, loc.selected_priority,
                                loc.start_date, loc.end_date, DefaultListLimit),
           "tickets_df", {"ticket_cards"}, {"no_tickets_info"}, "done")

Next ==
  \/ Tick
  \/ Ingest
  \/ StartRender
  \/ LoadCategories
  \/ LoadPriorities
  \/ LoadDateRange
  \/ Widgets
  \/ Search
  \/ Total
  \/ TimeSeries
  \/ ByCategory
  \/ ByPriority
  \/ RecentTickets

Spec == Init /\ [][Next]_vars

\* ---------------------------------------------------- the listing check
\* get_filtered_tickets and the option loaders as functions of the table:
\* the table is drawn at the start, then the listing for "All" in one
\* dimension is set beside the listings for each value the loader offers.
ListingCells == <<<<Billing, High>>, <<Billing, Low>>, <<Bug, High>>, <<Bug, Low>>>>

\* n tickets of cell k, on alternating days.
CellRows(k, n) ==
  {Ticket(1000 * k + i, ListingCells[k][1], <<"r">>, ListingCells[k][2],
          1 + (i % 2), <<"z">>) : i \in 1..n}

ListingTables ==
  {UNION {CellRows(k, c[k]) : k \in 1..Len(ListingCells)} :
     c \in [1..Len(ListingCells) -> {0, 1, Bulk}]}

ListingInit ==
  /\ now = 0
  /\ table \in ListingTables
  /\ session = FALSE
  /\ query_cache = << >>
  /\ loader_cache = << >>
  /\ pc = "idle"
  /\ renders = 0
  /\ loc = InitLoc
  /\ shown = {}
  /\ failures = 0
  /\ call = NoCall
  /\ served = NoServed
  /\ probe = NoProbe

get_filtered_tickets(category, priority, start_date, end_date, limit, tbl, tie) ==
  Execute(FilteredTicketsQuery(category, priority, start_date, end_date, limit),
          tbl, tie)

Intervals == {<<a, b>> \in (1..2) \X (1..2) : a <= b}

CompareCategories ==
  /\ ~probe.done
  /\ \E tie \in {"asc", "desc"}, iv \in Intervals :
       LET options == Loaded("get_categories", Execute(CategoriesQuery, table, tie))
           others == Loaded("get_priorities", Execute(PrioritiesQuery, table, tie))
       IN \E other \in Elements(others) :
            probe' =
              [done |-> TRUE, dimension |-> "category", other |-> other,
               start_date |-> iv[1], end_date |-> iv[2], options |-> options,
               matched |->
                 Cardinality(Where(FilteredTicketsQuery(All, other, DateVal(iv[1]),
                                     DateVal(iv[2]), DefaultListLimit), table)),
               all |-> get_filtered_tickets(All, other, DateVal(iv[1]), DateVal(iv[2]),
                                            DefaultListLimit, table, tie),
               parts |-> UNION {get_filtered_tickets(c, other, DateVal(iv[1]),
                                                     DateVal(iv[2]), DefaultListLimit,
                                                     table, tie) :
                                  c \in Elements(options) \ {All}}]
  /\ UNCHANGED <<now, table, session, query_cache, loader_cache, pc, renders,
                 loc, shown, failures, call, served>>

ComparePriorities ==
  /\ ~probe.done
  /\ \E tie \in {"asc", "desc"}, iv \in Intervals :
       LET options == Loaded("get_priorities", Execute(PrioritiesQuery, table, tie))
           others == Loaded("get_categories", Execute(CategoriesQuery, table, tie))
       IN \E other \in Elements(others) :
            probe' =
              [done |-> TRUE, dimension |-> "priority", other |-> other,
               start_date |-> iv[1], end_date |-> iv[2], options |-> options,
               matched |->
                 Cardinality(Where(FilteredTicketsQuery(other, All, DateVal(iv[1]),
                                     DateVal(iv[2]), DefaultListLimit), table)),
               all |-> get_filtered_tickets(other, All, DateVal(iv[1]), DateVal(iv[2]),
                                            DefaultListLimit, table, tie),
               parts |-> UNION {get_filtered_tickets(other, p, DateVal(iv[1]),
                                                     DateVal(iv[2]), DefaultListLimit,
                                                     table, tie) :
                                  p \in Elements(options) \ {All}}]
  /\ UNCHANGED <<now, table, session, query_cache, loader_cache, pc, renders,
                 loc, shown, failures, call, served>>

ListingNext ==
  \/ CompareCategories
  \/ ComparePriorities

ListingSpec == ListingInit /\ [][ListingNext]_vars

\* ------------------------------------------------------------- claims
Got(panel) == panel \in loc.attempted /\ loc.failed # panel

\* C1: a run_query call made less than 300 seconds after the execution that
\* stored the text's table returns that table without executing the text
\* again; a call made 300 seconds or more after it executes the text again.
C1_MemoizedForWindow ==
  (call.called /\ call.prev.at >= 0) =>
    /\ (call.at - call.prev.at < TTL) =>
         (~call.executed /\ call.exc = "none" /\ call.entry = call.prev)
    /\ (call.at - call.prev.at >= TTL) => call.executed

\* C1 witness: a call 299 seconds after the execution is answered from the
\* cache.
C1_Witness ==
  /\ call.called
  /\ call.prev.at >= 0
  /\ call.at - call.prev.at = TTL - 1
  /\ ~call.executed

\* C2: every value handed to main() by run_query or by a loader was read
\* from the store at most 300 seconds before it is handed over.
C2_StalenessBounded ==
  served.fn # "none" => served.at - served.readAt <= TTL

\* C2 witness: a loader hands over a value read 299 seconds earlier.
C2_Witness ==
  /\ served.fn \in {"get_categories", "get_priorities", "get_date_range"}
  /\ served.at - served.readAt = TTL - 1

ContainsCI(str, sub) ==
  \E i \in 0..(Len(str) - Len(sub)) :
    \A j \in 1..Len(sub) : Lower(str[i + j]) = Lower(sub[j])

\* C3: the fallback query is issued only when the semantic call raised, and
\* every row it returns has the search text as a case-insensitive substring
\* of its category or its subcategory.
C3_FallbackSubstring ==
  loc.fallback_issued =>
    /\ loc.search_failed
    /\ pc = "done" =>
         \A row \in loc.search_results :
           \/ ContainsCI(row.CATEGORY, loc.search_query)
           \/ ContainsCI(row.SUBCATEGORY, loc.search_query)

\* C4: a run whose semantic search call fails ends in the Results state with
\* the degradation warning and either the rows or the no-matches message,
\* and never as an exception nothing caught.
C4_SearchFailureRecovered ==
  loc.search_failed =>
    /\ pc = "done"
    /\ "fallback_warning" \in shown
    /\ "search_cards" \in shown \/ "no_matches_warning" \in shown
    /\ "exception" \notin shown

PanelQuery(panel) ==
  CASE panel = "total" ->
         TotalQuery(loc.selected_category, loc.selected_priority,
                    loc.start_date, loc.end_date)
    [] panel = "time" ->
         TicketsOverTimeQuery(loc.selected_category, loc.selected_priority,
                              loc.start_date, loc.end_date)
    [] panel = "by_category" ->
         TicketsByCategoryQuery(loc.selected_category, loc.selected_priority,
                                loc.start_date, loc.end_date)
    [] panel = "by_priority" ->
         TicketsByPriorityQuery(loc.selected_category, loc.selected_priority,
                                loc.start_date, loc.end_date)
    [] panel = "list" ->
         FilteredTicketsQuery(loc.selected_category, loc.selected_priority,
                              loc.start_date, loc.end_date, DefaultListLimit)

\* C5: when the query of one panel fails in a dashboard run, every other
\* panel whose own query succeeds is still rendered in that run.  A panel's
\* query succeeds when run_query answers it from the cache, or from a store
\* that is up.
Answerable(panel) ==
  run_query(query_cache, session, PanelQuery(panel),
            [est |-> TRUE, ok |-> TRUE, tie |-> "asc"], table, now).exc = "none"

C5_PanelFailureIsolated ==
  (pc = "crashed" /\ loc.failed \in Panels) =>
    \A p \in Panels \ {loc.failed} : Answerable(p) => Got(p)

Content ==
  {"total_metric", "categories_metric", "range_metric", "avg_metric",
   "time_chart", "category_chart", "priority_chart", "ticket_cards",
   "no_tickets_info", "search_success", "search_cards", "no_matches_warning"}

\* C6: a run in which get_session cannot obtain the session halts with the
\* error and the guidance message, and shows no metric, chart, ticket list
\* or search result.
C6_ConnectionFailureHalts ==
  loc.exc = "connection" =>
    /\ pc = "stopped"
    /\ {"error", "info"} \subseteq shown
    /\ shown \cap Content = {}

\* C6 witness: a run was halted by a failure to obtain the session.
C6_Witness ==
  /\ loc.exc = "connection"
  /\ pc = "stopped"
  /\ "error" \in shown

PanelFrame(panel) ==
  CASE panel = "time" -> loc.time_df
    [] panel = "by_category" -> loc.cat_df
    [] panel = "by_priority" -> loc.pri_df

Charts == {"time", "by_category", "by_priority"}

\* C7 as stated: in a dashboard run the counts of each chart sum to the
\* total metric of that run, whether the results were executed or cached.
C7_SumsEqualTotal ==
  \A p \in Charts :
    (Got("total") /\ Got(p)) => SumCounts(PanelFrame(p)) = loc.total_tickets

\* C7 as amended: the counts of each chart sum to the total metric of the
\* run whenever the chart's result and the total were read from the same
\* contents of the ticket table.
C7_SumsEqualTotalSameRead ==
  \A p \in Charts :
    (Got("total") /\ Got(p) /\ loc.sources[p] = loc.sources["total"]) =>
      SumCounts(PanelFrame(p)) = loc.total_tickets

\* C7 witness: a second run with a priority selected shows all three charts
\* and the total, all read from the same table contents, over two tickets.
C7_Witness ==
  /\ pc = "done"
  /\ renders = 2
  /\ loc.selected_priority # All
  /\ \A p \in Charts : Got(p) /\ loc.sources[p] = loc.sources["total"]
  /\ loc.total_tickets = 2

PanelElements(panel) ==
  CASE panel = "time" -> {"time_chart"}
    [] panel = "by_category" -> {"category_chart"}
    [] panel = "by_priority" -> {"priority_chart"}
    [] panel = "list" -> {"ticket_cards", "no_tickets_info"}

\* C8: no panel is left blank: a panel whose result has zero rows shows an
\* empty-state message, so every panel that got its result shows something.
C8_NoBlankPanel ==
  /\ \A p \in Charts \cup {"list"} : Got(p) => shown \cap PanelElements(p) # {}
  /\ (pc = "done" /\ loc.search_query # NoText) =>
       shown \cap {"search_cards", "no_matches_warning"} # {}

\* C9 as stated: the listing with "All" for a dimension is the union of the
\* listings with each value the loader offers for that dimension.
C9_AllIsUnion == probe.done => probe.all = probe.parts

\* C9 as amended: the same, when the rows that match with "All" number at
\* most the listing's limit of 100.
C9_AllIsUnionWithinLimit ==
  (probe.done /\ probe.matched <= DefaultListLimit) => probe.all = probe.parts

\* C9 witness: a listing of more than fifty rows, within the limit, whose
\* dimension offers two values.
C9_Witness ==
  /\ probe.done
  /\ probe.matched <= DefaultListLimit
  /\ Cardinality(probe.all) > Bulk
  /\ Len(probe.options) = 3

\* C10: for every value of the date-range control the average-per-day metric
\* is computed as the total over a denominator of at least one day, and is
\* the total itself when start_date = end_date.  The run is one that came to
\* the metrics row and whose total query the store did not fail.
C10_AveragePerDay ==
  ("total" \in loc.attempted
     /\ ~(loc.failed = "total" /\ loc.exc \in {"connection", "query"})) =>
    /\ "avg_metric" \in shown
    /\ loc.avg_per_day.num = loc.total_tickets
    /\ loc.avg_per_day.den >= 1
    /\ loc.start_date = loc.end_date => loc.avg_per_day.den = 1

====
